---------------------------- MODULE Spec2Model ----------------------------
(***************************************************************************)
(* Model of app.py, the Streamlit IPL dashboard.                           *)
(*                                                                         *)
(* Streamlit re-executes the whole script once per user interaction, so    *)
(* one script run is one action (ScriptRun).  The only state surviving a   *)
(* run is the st.cache_data store of load_data.  The three ranking         *)
(* functions are pure table transformations; they are modelled as          *)
(* operators and, for the properties of a single call, exercised by the    *)
(* Call actions of SpecRank on tables and top_n values from bounded sets.  *)
(*                                                                         *)
(* A DataFrame is a sequence of rows (records); the row index labels are   *)
(* not modelled.  A missing CSV cell (pandas NaN) is the value NaN.        *)
(***************************************************************************)
EXTENDS Integers, Sequences, FiniteSets, TLC

VARIABLES
    files,            \* data/matches.csv and data/deliveries.csv on disk
    cache,            \* the st.cache_data entry of load_data
    disk_reads,       \* pd.read_csv calls made by the last script run
    analysis_option,  \* the sidebar radio's value in the last run
    top_n,            \* the slider value / the top_n argument of the last call
    match_df,         \* the run's match table (module global)
    delivery_df,      \* the run's delivery table (module global)
    ui,               \* the Streamlit elements the last run emitted, in order
    views,            \* the dispatch branches the last run executed
    calls,            \* the ranking / chart functions the last run called, in order
    result,           \* the ranking frame returned by the last ranking call
    status            \* "idle" | "stopped" | "completed"  (app)
                      \* "input" | "returned"              (ranking function call)

vars == <<files, cache, disk_reads, analysis_option, top_n, match_df,
          delivery_df, ui, views, calls, result, status>>

-----------------------------------------------------------------------------
(* Bounds of the model *)

MaxDeliveries == 4      \* rows of a delivery table given to get_best_batsman
MaxBowled == 3          \* rows of a delivery table given to get_best_bowler
MaxMatches == 3         \* rows of a match table given to get_top_teams_wins
MaxTopN == 3            \* largest top_n given directly to a ranking function
MaxAppRows == 1         \* rows of each CSV file of the running app

(* Program constants: the slider bounds of the three views *)

BatsmanSliderMin == 5
BatsmanSliderMax == 20
BowlerSliderMin == 5
BowlerSliderMax == 20
TeamSliderMin == 3
TeamSliderMax == 10

-----------------------------------------------------------------------------
(* Values *)

NaN == "<NaN>"
\* The st.cache_data store of load_data before any call has returned.
NoCache == [present |-> FALSE, match_df |-> <<>>, delivery_df |-> <<>>]

Batsmen == {"A", "B", "C"}
Bowlers == {"X", "Y"}
Teams == {"Chennai", "Mumbai"}
RunValues == {1, 4, 6}

\* Python's string order on the names used as group keys.
LexOrder == <<"A", "B", "C", "Chennai", "Mumbai", "X", "Y">>

KeyRank(k) == CHOOSE i \in DOMAIN LexOrder : LexOrder[i] = k

\* The isin([...]) list of get_best_bowler.
WicketKinds == {"caught", "bowled", "lbw", "stumped", "caught and bowled", "hit wicket"}

\* Values the dismissal_kind column takes: the credited kinds, a run out, a
\* label differing from a credited kind only in case, and the empty cell.
DismissalKinds == WicketKinds \cup {"run out", "Caught", NaN}

Options == {"Home", "Best Batsman", "Best Bowler", "Top Teams Performance"}

Delivery(b, r, w, k) ==
    [batsman |-> b, batsman_runs |-> r, bowler |-> w, dismissal_kind |-> k]

Match(w) == [winner |-> w]

\* All sequences over rows of length at most n.
TablesOver(rows, n) == UNION {[1..k -> rows] : k \in 0..n}

-----------------------------------------------------------------------------
(* pandas operations, as app.py uses them *)

RECURSIVE SumCol(_, _)
SumCol(frame, col) ==
    IF frame = <<>> THEN 0
    ELSE frame[1][col] + SumCol(Tail(frame), col)

ColumnValues(frame, col) == {frame[i][col] : i \in DOMAIN frame}

\* groupby(col): the group keys, NaN dropped, in sorted order.
GroupKeys(frame, col) ==
    LET ks == ColumnValues(frame, col) \ {NaN}
        n == Cardinality(ks)
    IN  CHOOSE s \in [1..n -> ks] :
            \A i, j \in 1..n : i < j => KeyRank(s[i]) < KeyRank(s[j])

RowsOf(frame, col, k) == SelectSeq(frame, LAMBDA r : r[col] = k)

\* delivery_df.groupby('batsman')['batsman_runs'].sum().reset_index()
GroupBySum(frame) ==
    LET keys == GroupKeys(frame, "batsman")
    IN  [i \in DOMAIN keys |->
            [batsman |-> keys[i],
             batsman_runs |-> SumCol(RowsOf(frame, "batsman", keys[i]), "batsman_runs")]]

\* Mutant: 'run out' is in the isin list.
FilterWickets_runout(frame) ==
    SelectSeq(frame, LAMBDA r : r.dismissal_kind \in WicketKinds \cup {"run out"})

\* delivery_df[delivery_df['dismissal_kind'].isin([...])]
FilterWickets(frame) == SelectSeq(frame, LAMBDA r : r.dismissal_kind \in WicketKinds)

\* Series.count(): the non-NaN cells.
CountNonNull(frame, col) == Len(SelectSeq(frame, LAMBDA r : r[col] # NaN))

\* wickets.groupby('bowler')['dismissal_kind'].count().reset_index(name='Wickets Taken')
GroupByCount(frame) ==
    LET keys == GroupKeys(frame, "bowler")
    IN  [i \in DOMAIN keys |->
            [bowler |-> keys[i],
             Wickets_Taken |-> CountNonNull(RowsOf(frame, "bowler", keys[i]), "dismissal_kind")]]

\* The distinct values of a column in order of first appearance.
RECURSIVE Uniques(_, _)
Uniques(frame, col) ==
    IF frame = <<>> THEN <<>>
    ELSE LET v == frame[Len(frame)][col]
             before == SubSeq(frame, 1, Len(frame) - 1)
             u == Uniques(before, col)
         IN  IF v \in {u[i] : i \in DOMAIN u} THEN u ELSE Append(u, v)

\* sort_values(by=col, ascending=False) with the default kind='quicksort':
\* the rows in non-increasing order of col.  The sort is not stable, so the
\* order of rows with equal keys is whatever the numpy build produces: every
\* such order is an outcome.
SortValuesDesc(frame, col) ==
    {[i \in DOMAIN frame |-> frame[p[i]]] : p \in
        {q \in Permutations(DOMAIN frame) :
            \A i, j \in DOMAIN frame : i < j => frame[q[i]][col] >= frame[q[j]][col]}}

\* Mutant: value_counts(dropna=False).
ValueCounts_keepna(frame) ==
    LET u == Uniques(frame, "winner")
        counted == [i \in DOMAIN u |->
                      [Team |-> u[i], Total_Wins |-> Len(RowsOf(frame, "winner", u[i]))]]
    IN  SortValuesDesc(counted, "Total_Wins")

\* match_df['winner'].value_counts().reset_index() with the columns renamed:
\* NaN dropped (dropna=True), one row per value, sorted by count descending.
ValueCounts(frame) ==
    LET u == SelectSeq(Uniques(frame, "winner"), LAMBDA v : v # NaN)
        counted == [i \in DOMAIN u |->
                      [Team |-> u[i], Total_Wins |-> Len(RowsOf(frame, "winner", u[i]))]]
    IN  SortValuesDesc(counted, "Total_Wins")

\* Mutant: the last of the rows head should keep is lost.
head_offbyone(frame, n) ==
    SubSeq(frame, 1, (IF n < Len(frame) THEN n ELSE Len(frame)) - 1)

\* DataFrame.head(n): the first n rows; for negative n all but the last -n.
head(frame, n) ==
    IF n >= 0
    THEN SubSeq(frame, 1, IF n < Len(frame) THEN n ELSE Len(frame))
    ELSE SubSeq(frame, 1, IF Len(frame) + n > 0 THEN Len(frame) + n ELSE 0)

-----------------------------------------------------------------------------
(* The ranking functions.  Each yields the set of frames the call can      *)
(* return (more than one only where the sort meets equal keys).            *)

\* Mutant: ascending=False is missing.
get_best_batsman_ascending(df, n) ==
    {head([i \in DOMAIN s |-> s[Len(s) + 1 - i]], n) :
        s \in SortValuesDesc(GroupBySum(df), "batsman_runs")}

\* Mutant: head(top_n) is taken before the sort.
get_best_batsman_headfirst(df, n) ==
    SortValuesDesc(head(GroupBySum(df), n), "batsman_runs")

get_best_batsman(df, n) ==
    {head(s, n) : s \in SortValuesDesc(GroupBySum(df), "batsman_runs")}

get_best_bowler(df, n) ==
    {head(s, n) : s \in SortValuesDesc(GroupByCount(FilterWickets(df)), "Wickets_Taken")}

get_top_teams_wins(df, n) ==
    {head(s, n) : s \in ValueCounts(df)}

-----------------------------------------------------------------------------
(* The chart renderers: one bar per row of the ranking frame. *)

plot_batsman_runs(df) == [title |-> "Batsmen by Total Runs", bars |-> Len(df)]

plot_bowler_wickets(df) == [title |-> "Bowlers by Total Wickets", bars |-> Len(df)]

plot_top_teams(df) == [title |-> "Winning Teams (All Seasons)", bars |-> Len(df)]

-----------------------------------------------------------------------------
(* The data loader *)

\* pd.read_csv(path): the table, or the exception it raises.
read_csv(f) ==
    IF f.status = "ok" THEN [raised |-> "", frame |-> f.table]
    ELSE IF f.status = "missing" THEN [raised |-> "FileNotFoundError", frame |-> <<>>]
    ELSE [raised |-> "OSError", frame |-> <<>>]

\* Mutant: st.stop() is missing, the script goes on with empty tables.
LoadFailure_nostop(c, raised, reads) ==
    [ok |-> TRUE, match_df |-> <<>>, delivery_df |-> <<>>, cache |-> c, reads |-> reads,
     ui |-> <<"error">>]

\* What a call of load_data that does not return does to the run.
\* FileNotFoundError is caught: st.error, then st.stop().  Any other
\* exception leaves load_data and the script; Streamlit shows it and the
\* run ends.  Nothing is stored in the cache.
LoadFailure(c, raised, reads) ==
    [ok |-> FALSE, match_df |-> <<>>, delivery_df |-> <<>>, cache |-> c, reads |-> reads,
     ui |-> IF raised = "FileNotFoundError" THEN <<"error">> ELSE <<"exception">>]

\* Mutant: the @st.cache_data decorator is missing, every run reads the files.
load_data_uncached(c, f) ==
    LET m == read_csv(f.matches)
        d == read_csv(f.deliveries)
        kept == [present |-> TRUE, match_df |-> m.frame, delivery_df |-> d.frame]
    IN  IF m.raised # "" THEN LoadFailure(c, m.raised, 1)
        ELSE IF d.raised # "" THEN LoadFailure(c, d.raised, 2)
        ELSE [ok |-> TRUE, match_df |-> m.frame, delivery_df |-> d.frame,
              cache |-> kept, reads |-> 2, ui |-> <<>>]

\* @st.cache_data load_data(): a stored entry is returned without running
\* the body; otherwise the body reads matches.csv, then deliveries.csv, and
\* the returned pair is stored.
load_data(c, f) ==
    IF c.present
    THEN [ok |-> TRUE, match_df |-> c.match_df, delivery_df |-> c.delivery_df,
          cache |-> c, reads |-> 0, ui |-> <<>>]
    ELSE LET m == read_csv(f.matches)
             d == read_csv(f.deliveries)
         IN  IF m.raised # "" THEN LoadFailure(c, m.raised, 1)
             ELSE IF d.raised # "" THEN LoadFailure(c, d.raised, 2)
             ELSE [ok |-> TRUE, match_df |-> m.frame, delivery_df |-> d.frame,
                   cache |-> [present |-> TRUE, match_df |-> m.frame, delivery_df |-> d.frame],
                   reads |-> 2, ui |-> <<>>]

-----------------------------------------------------------------------------
(* The script *)

\* Lines 25-33: emitted before load_data is called.
Preamble == <<"title", "markdown", "sidebar.radio">>

\* Lines 197-199: emitted after the dispatch.
Epilogue == <<"sidebar.image", "sidebar.header">>

\* The values the view's st.slider can hand to the script (Home has none).
SliderValues(option) ==
    IF option = "Best Batsman" THEN BatsmanSliderMin..BatsmanSliderMax
    ELSE IF option = "Best Bowler" THEN BowlerSliderMin..BowlerSliderMax
    ELSE IF option = "Top Teams Performance" THEN TeamSliderMin..TeamSliderMax
    ELSE {-1}

Call(fn, arg, n) == [fn |-> fn, arg |-> arg, n |-> n]

ViewUi == <<"header", "slider", "subheader", "dataframe", "pyplot">>

\* What a dispatch branch leaves behind.  No branch assigns to, or calls a
\* mutating method on, match_df or delivery_df (groupby, sort_values, head,
\* value_counts and boolean indexing build new frames; the columns renamed
\* are those of the new frame), so the run's tables are m and d afterwards.
Outcome(view, cs, elements, r, n, m, d) ==
    [views |-> view, calls |-> cs, ui |-> elements, result |-> r, top_n |-> n,
     match_df |-> m, delivery_df |-> d]

\* Lines 144-146.
HomeView(m, d) == {Outcome(<<"Home">>, <<>>, <<"header", "write">>, <<>>, -1, m, d)}

\* Lines 148-160.
BatsmanView(s, m, d) ==
    {Outcome(<<"Best Batsman">>,
             <<Call("get_best_batsman", "delivery_df", s),
               Call("plot_batsman_runs", "top_batsmen_df", plot_batsman_runs(r).bars)>>,
             ViewUi, r, s, m, d) : r \in get_best_batsman(d, s)}

\* Lines 163-175.
BowlerView(s, m, d) ==
    {Outcome(<<"Best Bowler">>,
             <<Call("get_best_bowler", "delivery_df", s),
               Call("plot_bowler_wickets", "top_bowlers_df", plot_bowler_wickets(r).bars)>>,
             ViewUi, r, s, m, d) : r \in get_best_bowler(d, s)}

\* Mutant: the no-result matches are dropped from match_df in place.
TeamsView_dropna(s, m, d) ==
    LET kept == SelectSeq(m, LAMBDA r : r.winner # NaN)
    IN  {Outcome(<<"Top Teams Performance">>,
                 <<Call("get_top_teams_wins", "match_df", s),
                   Call("plot_top_teams", "top_teams_df", plot_top_teams(r).bars)>>,
                 ViewUi, r, s, kept, d) : r \in get_top_teams_wins(kept, s)}

\* Lines 177-189.
TeamsView(s, m, d) ==
    {Outcome(<<"Top Teams Performance">>,
             <<Call("get_top_teams_wins", "match_df", s),
               Call("plot_top_teams", "top_teams_df", plot_top_teams(r).bars)>>,
             ViewUi, r, s, m, d) : r \in get_top_teams_wins(m, s)}

\* Mutant: the bowler branch is a copy of the batsman branch.
Dispatch_copied(option, s, m, d) ==
    IF option = "Home" THEN HomeView(m, d)
    ELSE IF option = "Best Batsman" THEN BatsmanView(s, m, d)
    ELSE IF option = "Best Bowler" THEN BatsmanView(s, m, d)
    ELSE IF option = "Top Teams Performance" THEN TeamsView(s, m, d)
    ELSE {Outcome(<<>>, <<>>, <<>>, <<>>, -1, m, d)}

\* The if / elif chain of lines 144-189 on the tables m (match_df) and
\* d (delivery_df) with slider value s: the set of ways the run can go on.
Dispatch(option, s, m, d) ==
    IF option = "Home" THEN HomeView(m, d)
    ELSE IF option = "Best Batsman" THEN BatsmanView(s, m, d)
    ELSE IF option = "Best Bowler" THEN BowlerView(s, m, d)
    ELSE IF option = "Top Teams Performance" THEN TeamsView(s, m, d)
    ELSE {Outcome(<<>>, <<>>, <<>>, <<>>, -1, m, d)}

\* One execution of app.py, top to bottom, for one user interaction.
ScriptRun(option, s) ==
    LET ld == load_data(cache, files)
    IN  /\ status \in {"idle", "stopped", "completed"}
        /\ analysis_option' = option
        /\ cache' = ld.cache
        /\ disk_reads' = ld.reads
        /\ files' = files
        /\ IF ~ld.ok
           THEN /\ ui' = Preamble \o ld.ui
                /\ views' = <<>>
                /\ calls' = <<>>
                /\ result' = <<>>
                /\ top_n' = -1
                /\ match_df' = <<>>
                /\ delivery_df' = <<>>
                /\ status' = "stopped"
           ELSE \E o \in Dispatch(option, s, ld.match_df, ld.delivery_df) :
                /\ ui' = Preamble \o o.ui \o Epilogue
                /\ views' = o.views
                /\ calls' = o.calls
                /\ result' = o.result
                /\ top_n' = o.top_n
                /\ match_df' = o.match_df
                /\ delivery_df' = o.delivery_df
                /\ status' = "completed"

\* The data folder changes between runs: a file is removed, made
\* unreadable, or put back.  (The script itself never writes to it.)
SetFileStatus(name, st) ==
    /\ status \in {"idle", "stopped", "completed"}
    /\ files[name].status # st
    /\ files' = [files EXCEPT ![name].status = st]
    /\ UNCHANGED <<cache, disk_reads, analysis_option, top_n, match_df,
                   delivery_df, ui, views, calls, result, status>>

\* The CSV files the app can find in data/.
AppDeliveryRows == {Delivery("A", 4, "X", "caught"), Delivery("B", 4, "Y", "run out")}

AppMatchRows == {Match("Mumbai"), Match(NaN)}

FileStatuses == {"ok", "missing", "unreadable"}

FileStates(rows) == [status : FileStatuses, table : TablesOver(rows, MaxAppRows)]

Init ==
    /\ files \in [matches : FileStates(AppMatchRows), deliveries : FileStates(AppDeliveryRows)]
    /\ cache = NoCache
    /\ disk_reads = 0
    /\ analysis_option = "Home"
    /\ top_n = -1
    /\ match_df = <<>>
    /\ delivery_df = <<>>
    /\ ui = <<>>
    /\ views = <<>>
    /\ calls = <<>>
    /\ result = <<>>
    /\ status = "idle"

Run == \E option \in Options : \E s \in SliderValues(option) : ScriptRun(option, s)

DataFolderChange == \E name \in {"matches", "deliveries"} : \E st \in FileStatuses : SetFileStatus(name, st)

Next == Run \/ DataFolderChange

Spec == Init /\ [][Next]_vars

-----------------------------------------------------------------------------
(* The ranking functions on their own: a table and a top_n are chosen, and *)
(* one call is made.  get_best_batsman reads only the batsman and          *)
(* batsman_runs columns, get_best_bowler only bowler and dismissal_kind,   *)
(* so the tables given to each vary in those columns.                      *)

TopNs == 0..MaxTopN

BatsmanTables ==
    TablesOver({Delivery(b, r, "X", NaN) : b \in Batsmen, r \in RunValues}, MaxDeliveries)

BowlerTables ==
    TablesOver({Delivery("A", 0, w, k) : w \in Bowlers, k \in DismissalKinds}, MaxBowled)

MatchTables == TablesOver({Match(w) : w \in Teams \cup {NaN}}, MaxMatches)

NoFile == [status |-> "missing", table |-> <<>>]

InitRank ==
    /\ files = [matches |-> NoFile, deliveries |-> NoFile]
    /\ cache = NoCache
    /\ disk_reads = 0
    /\ ui = <<>>
    /\ views = <<>>
    /\ calls = <<>>
    /\ result = <<>>
    /\ status = "input"
    /\ top_n \in TopNs
    /\ \/ /\ analysis_option = "Best Batsman"
          /\ delivery_df \in BatsmanTables
          /\ match_df = <<>>
       \/ /\ analysis_option = "Best Bowler"
          /\ delivery_df \in BowlerTables
          /\ match_df = <<>>
       \/ /\ analysis_option = "Top Teams Performance"
          /\ delivery_df = <<>>
          /\ match_df \in MatchTables

Returned(fn, arg, r) ==
    /\ result' = r
    /\ calls' = <<Call(fn, arg, top_n)>>
    /\ status' = "returned"
    /\ UNCHANGED <<files, cache, disk_reads, analysis_option, top_n, match_df,
                   delivery_df, ui, views>>

CallBatsman ==
    /\ status = "input"
    /\ analysis_option = "Best Batsman"
    /\ \E r \in get_best_batsman(delivery_df, top_n) :
            Returned("get_best_batsman", "delivery_df", r)

CallBowler ==
    /\ status = "input"
    /\ analysis_option = "Best Bowler"
    /\ \E r \in get_best_bowler(delivery_df, top_n) :
            Returned("get_best_bowler", "delivery_df", r)

CallTeams ==
    /\ status = "input"
    /\ analysis_option = "Top Teams Performance"
    /\ \E r \in get_top_teams_wins(match_df, top_n) :
            Returned("get_top_teams_wins", "match_df", r)

NextRank == CallBatsman \/ CallBowler \/ CallTeams

SpecRank == InitRank /\ [][NextRank]_vars

-----------------------------------------------------------------------------
(* Vocabulary of the properties *)

RECURSIVE SumRuns(_, _)
SumRuns(df, idx) ==
    IF idx = {} THEN 0
    ELSE LET i == CHOOSE j \in idx : TRUE
         IN  df[i].batsman_runs + SumRuns(df, idx \ {i})

\* The runs of batsman b over all deliveries of the table.
TotalRuns(df, b) == SumRuns(df, {i \in DOMAIN df : df[i].batsman = b})

DistinctBatsmen(df) == {df[i].batsman : i \in DOMAIN df}

DistinctBowlers(df) == {df[i].bowler : i \in DOMAIN df}

\* The dismissal kinds credited to the bowler, as the specification lists them.
Credited == {"caught", "bowled", "lbw", "stumped", "caught and bowled", "hit wicket"}

Wickets(df, w) ==
    Cardinality({i \in DOMAIN df : df[i].bowler = w /\ df[i].dismissal_kind \in Credited})

WicketTakers(df) == {w \in DistinctBowlers(df) : Wickets(df, w) > 0}

Wins(df, t) == Cardinality({i \in DOMAIN df : df[i].winner = t})

Winners(df) == {df[i].winner : i \in DOMAIN df} \ {NaN}

Decided(df) == {i \in DOMAIN df : df[i].winner # NaN}

RECURSIVE SumWins(_)
SumWins(frame) ==
    IF frame = <<>> THEN 0 ELSE frame[1].Total_Wins + SumWins(Tail(frame))

\* The names a ranking frame lists, and a name's place in it (0: not listed).
Listed(frame, col) == {frame[i][col] : i \in DOMAIN frame}

Place(frame, col, k) ==
    IF k \in Listed(frame, col) THEN CHOOSE i \in DOMAIN frame : frame[i][col] = k ELSE 0

OnePerName(frame, col) == Cardinality(Listed(frame, col)) = Len(frame)

\* The first delivery of batsman b.
FirstDelivery(df, b) ==
    CHOOSE i \in DOMAIN df : df[i].batsman = b /\ \A j \in 1..(i - 1) : df[j].batsman # b

ReturnedFrom(option) == status = "returned" /\ analysis_option = option

ErrorElements == {"error", "exception"}

LoadFails == files.matches.status # "ok" \/ files.deliveries.status # "ok"

\* A step that is a script run (the data folder is as it was).
IsRun == files' = files

-----------------------------------------------------------------------------
(* C1 *)

\* C1, as stated: in any run in which a file is missing or unreadable the
\* run is halted and emits no element other than the error message, and no
\* ranking or chart function runs.
C1_NoElementButTheError ==
    [][(IsRun /\ LoadFails) =>
          /\ status' = "stopped"
          /\ \A i \in DOMAIN ui' : ui'[i] \in ErrorElements
          /\ calls' = <<>>]_vars

\* C1, amended: in any run in which load_data has no cached tables and a
\* file is missing or unreadable, the run is halted at load_data: it has
\* emitted the title, the separator and the sidebar selector (which precede
\* the load) and then exactly one error element; no view runs, no ranking
\* or chart function is called, nothing after the load is emitted and
\* nothing is cached.
C1_HaltsAtLoad ==
    [][(IsRun /\ LoadFails /\ ~cache.present) =>
          /\ status' = "stopped"
          /\ Len(ui') = Len(Preamble) + 1
          /\ SubSeq(ui', 1, Len(Preamble)) = Preamble
          /\ ui'[Len(ui')] \in ErrorElements
          /\ views' = <<>>
          /\ calls' = <<>>
          /\ result' = <<>>
          /\ ~cache'.present]_vars

\* A run was halted by a missing file: the error element is on the page.
C1_Witness ==
    /\ status = "stopped"
    /\ LoadFails
    /\ ui # <<>>
    /\ ui[Len(ui)] = "error"

-----------------------------------------------------------------------------
(* C2 *)

\* C2: once load_data has returned, every later run gets the cached tables
\* and performs no file read, whatever has become of the files.
C2_LoadedOnce ==
    [][(IsRun /\ cache.present) =>
          /\ disk_reads' = 0
          /\ cache' = cache
          /\ status' = "completed"
          /\ match_df' = cache.match_df
          /\ delivery_df' = cache.delivery_df]_vars

\* A run served from the cache although a file is gone by now.
C2_Witness ==
    /\ status = "completed"
    /\ cache.present
    /\ disk_reads = 0
    /\ LoadFails
    /\ delivery_df # <<>>

-----------------------------------------------------------------------------
(* C3 *)

\* C3: get_best_batsman returns rows (batsman, total) whose total is the sum
\* of the batsman's runs over all the batsman's deliveries, sorted non-increasing by
\* total, at most top_n rows and at most one per distinct batsman.
C3_BatsmanRanking ==
    ReturnedFrom("Best Batsman") =>
        /\ \A i \in DOMAIN result :
              /\ result[i].batsman \in DistinctBatsmen(delivery_df)
              /\ result[i].batsman_runs = TotalRuns(delivery_df, result[i].batsman)
        /\ \A i, j \in DOMAIN result :
              i < j => result[i].batsman_runs >= result[j].batsman_runs
        /\ Len(result) <= top_n
        /\ Len(result) <= Cardinality(DistinctBatsmen(delivery_df))
        /\ OnePerName(result, "batsman")

\* A ranking cut at top_n, of two rows or more, one of them a sum over
\* several deliveries, with unequal totals.
C3_Witness ==
    /\ ReturnedFrom("Best Batsman")
    /\ Len(result) = top_n
    /\ top_n >= 2
    /\ Cardinality(DistinctBatsmen(delivery_df)) > top_n
    /\ result[1].batsman_runs > result[2].batsman_runs
    /\ \E i, j \in DOMAIN delivery_df :
          i # j /\ delivery_df[i].batsman = delivery_df[j].batsman

-----------------------------------------------------------------------------
(* C4 *)

\* C4: the wicket count reported for a bowler is the number of that bowler's
\* deliveries whose dismissal kind is one of the six credited kinds; a run
\* out, any other label and an empty cell count for nobody.
C4_CreditedWicketsOnly ==
    ReturnedFrom("Best Bowler") =>
        /\ \A i \in DOMAIN result :
              /\ result[i].bowler \in DistinctBowlers(delivery_df)
              /\ result[i].Wickets_Taken = Wickets(delivery_df, result[i].bowler)
              /\ result[i].Wickets_Taken > 0
        /\ OnePerName(result, "bowler")

\* A bowler is listed with the credited wickets alone while the table also holds
\* a run out, a label in another case and a delivery without dismissal.
C4_Witness ==
    /\ ReturnedFrom("Best Bowler")
    /\ result # <<>>
    /\ {"run out", "Caught"} \subseteq {delivery_df[i].dismissal_kind : i \in DOMAIN delivery_df}
    /\ \E i \in DOMAIN delivery_df :
          /\ delivery_df[i].bowler = result[1].bowler
          /\ delivery_df[i].dismissal_kind = "run out"

-----------------------------------------------------------------------------
(* C5 *)

\* C5: get_top_teams_wins has no row for the absent winner, each team's
\* count is the number of matches it won, and the counts of the untruncated
\* ranking add up to the number of matches that have a winner.
C5_TeamWins ==
    ReturnedFrom("Top Teams Performance") =>
        /\ \A i \in DOMAIN result :
              /\ result[i].Team # NaN
              /\ result[i].Total_Wins = Wins(match_df, result[i].Team)
        /\ OnePerName(result, "Team")
        /\ top_n >= Cardinality(Winners(match_df)) =>
              SumWins(result) = Cardinality(Decided(match_df))

\* The untruncated ranking of a table with a no-result match.
C5_Witness ==
    /\ ReturnedFrom("Top Teams Performance")
    /\ \E i \in DOMAIN match_df : match_df[i].winner = NaN
    /\ Len(result) = 2
    /\ SumWins(result) = 2

-----------------------------------------------------------------------------
(* C6 *)

\* C6, as stated: with top_n greater than the number of distinct entities of
\* the input table (batsmen, bowlers, teams) the function returns exactly
\* one row per distinct entity.
C6_OneRowPerEntity ==
    /\ (ReturnedFrom("Best Batsman") /\ top_n > Cardinality(DistinctBatsmen(delivery_df))) =>
          /\ Len(result) = Cardinality(DistinctBatsmen(delivery_df))
          /\ Listed(result, "batsman") = DistinctBatsmen(delivery_df)
    /\ (ReturnedFrom("Best Bowler") /\ top_n > Cardinality(DistinctBowlers(delivery_df))) =>
          /\ Len(result) = Cardinality(DistinctBowlers(delivery_df))
          /\ Listed(result, "bowler") = DistinctBowlers(delivery_df)
    /\ (ReturnedFrom("Top Teams Performance") /\ top_n > Cardinality(Winners(match_df))) =>
          /\ Len(result) = Cardinality(Winners(match_df))
          /\ Listed(result, "Team") = Winners(match_df)

\* C6, amended: with top_n greater than the number of distinct entities the
\* function returns exactly one row per distinct entity, where the entities
\* of get_best_bowler are the bowlers with at least one credited wicket (a
\* bowler without one has no row), those of get_best_batsman the batsmen of
\* the table and those of get_top_teams_wins the teams named as a winner.
C6_OneRowPerRankedEntity ==
    /\ (ReturnedFrom("Best Batsman") /\ top_n > Cardinality(DistinctBatsmen(delivery_df))) =>
          /\ Len(result) = Cardinality(DistinctBatsmen(delivery_df))
          /\ Listed(result, "batsman") = DistinctBatsmen(delivery_df)
    /\ (ReturnedFrom("Best Bowler") /\ top_n > Cardinality(WicketTakers(delivery_df))) =>
          /\ Len(result) = Cardinality(WicketTakers(delivery_df))
          /\ Listed(result, "bowler") = WicketTakers(delivery_df)
    /\ (ReturnedFrom("Top Teams Performance") /\ top_n > Cardinality(Winners(match_df))) =>
          /\ Len(result) = Cardinality(Winners(match_df))
          /\ Listed(result, "Team") = Winners(match_df)

\* top_n exceeds the bowlers of the table, of whom one took no wicket.
C6_Witness ==
    /\ ReturnedFrom("Best Bowler")
    /\ top_n > Cardinality(DistinctBowlers(delivery_df))
    /\ Cardinality(DistinctBowlers(delivery_df)) = 2
    /\ Len(result) = 1

-----------------------------------------------------------------------------
(* C7 *)

\* The frame is what a stable sort returns: batsmen with equal totals keep
\* the order groupby put them in (name order), within the frame and across
\* its cut-off.
KeepsGroupOrder(df, frame) ==
    \A x, y \in DistinctBatsmen(df) :
        ( /\ TotalRuns(df, x) = TotalRuns(df, y)
          /\ KeyRank(x) < KeyRank(y)
          /\ y \in Listed(frame, "batsman") )
        => /\ x \in Listed(frame, "batsman")
           /\ Place(frame, "batsman", x) < Place(frame, "batsman", y)

\* C7, as stated: of two batsmen with equal totals the one whose first
\* delivery comes earlier in the table is ranked before the other, also
\* where the tie straddles the top_n cut-off.  (Stated of the calls whose
\* sort happened to be stable, the case most favourable to it.)
C7_TiesInInputOrder ==
    (ReturnedFrom("Best Batsman") /\ KeepsGroupOrder(delivery_df, result)) =>
        \A x, y \in DistinctBatsmen(delivery_df) :
            ( /\ TotalRuns(delivery_df, x) = TotalRuns(delivery_df, y)
              /\ FirstDelivery(delivery_df, x) < FirstDelivery(delivery_df, y)
              /\ y \in Listed(result, "batsman") )
            => /\ x \in Listed(result, "batsman")
               /\ Place(result, "batsman", x) < Place(result, "batsman", y)

\* C7, amended: the ranking orders batsmen by total alone.  A batsman with a
\* strictly larger total is never ranked after, nor cut off in favour of,
\* one with a smaller total; the order of batsmen with equal totals is not
\* the order of their deliveries (the groups are formed in name order and
\* sorted by pandas' default, unstable sort).
C7_OrderedByTotalAlone ==
    ReturnedFrom("Best Batsman") =>
        \A x, y \in DistinctBatsmen(delivery_df) :
            ( /\ TotalRuns(delivery_df, x) > TotalRuns(delivery_df, y)
              /\ y \in Listed(result, "batsman") )
            => /\ x \in Listed(result, "batsman")
               /\ Place(result, "batsman", x) < Place(result, "batsman", y)

\* A tie straddles the cut-off, below a batsman with a larger total: the
\* tied batsman who is listed is the one whose first delivery came later.
C7_Witness ==
    /\ ReturnedFrom("Best Batsman")
    /\ Len(result) = 2
    /\ result[1].batsman_runs > result[2].batsman_runs
    /\ \E x \in DistinctBatsmen(delivery_df) \ Listed(result, "batsman") :
          /\ TotalRuns(delivery_df, x) = result[2].batsman_runs
          /\ FirstDelivery(delivery_df, x) < FirstDelivery(delivery_df, result[2].batsman)

-----------------------------------------------------------------------------
(* C8 *)

ViewCalls(option) ==
    IF option = "Best Batsman" THEN <<"get_best_batsman", "delivery_df", "plot_batsman_runs">>
    ELSE IF option = "Best Bowler" THEN <<"get_best_bowler", "delivery_df", "plot_bowler_wickets">>
    ELSE <<"get_top_teams_wins", "match_df", "plot_top_teams">>

\* What the selected view, and no other, does.
OwnViewOnly ==
    /\ views = <<analysis_option>>
    /\ IF analysis_option = "Home"
       THEN calls = <<>>
       ELSE /\ Len(calls) = 2
            /\ calls[1].fn = ViewCalls(analysis_option)[1]
            /\ calls[1].arg = ViewCalls(analysis_option)[2]
            /\ calls[1].n = top_n
            /\ top_n \in SliderValues(analysis_option)
            /\ calls[2].fn = ViewCalls(analysis_option)[3]
            /\ calls[2].n = Len(result)
            /\ result \in (IF analysis_option = "Best Batsman"
                             THEN get_best_batsman(delivery_df, top_n)
                           ELSE IF analysis_option = "Best Bowler"
                             THEN get_best_bowler(delivery_df, top_n)
                           ELSE get_top_teams_wins(match_df, top_n))

\* C8, as stated: in every request exactly one of the four views executes,
\* Home calling nothing and each other view its own ranking function, then
\* its own chart renderer, on its own table with its slider value.
C8_ExactlyOneView ==
    status \in {"stopped", "completed"} => OwnViewOnly

\* C8, amended: in every request in which load_data returns, exactly one of
\* the four views executes (as stated); a request halted at load_data
\* executes none.
C8_OneViewAfterLoad ==
    /\ status = "completed" => OwnViewOnly
    /\ status = "stopped" => (views = <<>> /\ calls = <<>>)

\* The bowler view ran on a table with a credited wicket.
C8_Witness ==
    /\ status = "completed"
    /\ analysis_option = "Best Bowler"
    /\ Len(calls) = 2
    /\ result # <<>>

-----------------------------------------------------------------------------
(* C10 *)

\* C10: after the load no run changes the match table or the delivery table
\* (the tables a completed run holds are the loaded ones, row for row), and
\* no run writes to the files.
C10_TablesUnchanged ==
    [][/\ cache.present => cache' = cache
       /\ files'.matches.table = files.matches.table
       /\ files'.deliveries.table = files.deliveries.table
       /\ (IsRun /\ status' = "completed") =>
             /\ match_df' = cache'.match_df
             /\ delivery_df' = cache'.delivery_df]_vars

\* The teams view has run on a table with a no-result match.
C10_Witness ==
    /\ status = "completed"
    /\ analysis_option = "Top Teams Performance"
    /\ match_df # <<>>
    /\ match_df[1].winner = NaN
    /\ delivery_df # <<>>

=============================================================================
